---- MODULE Spec2Model ----
(***************************************************************************)
(* Model of the weather / PDF question-answering agent (class AIAgent).    *)
(* The repository holds two variants of the agent, src/main.py and         *)
(* src/test_main.py; the variable `variant` says which one is running.     *)
(* Texts that the code inspects (queries, document chunks, retrieved       *)
(* context) are sequences of one-character strings; texts the code only    *)
(* stores (LLM output, messages) are strings.                              *)
(***************************************************************************)
EXTENDS Integers, Sequences, FiniteSets, TLC

VARIABLES variant, vector_store, pc, state, executed, llm_calls,
          weather_calls, index_calls, raised, op, arg, load_result,
          load_arg, weather_response, llm_error, llm_exception,
          startup_report

vars == <<variant, vector_store, pc, state, executed, llm_calls,
          weather_calls, index_calls, raised, op, arg, load_result,
          load_arg, weather_response, llm_error, llm_exception,
          startup_report>>

-----------------------------------------------------------------------------
(* Text primitives: str.lower, `k in query`, str.strip, str.split, join.   *)

LowerChar(c) ==
  CASE c = "R" -> "r"
    [] c = "W" -> "w"
    [] c = "P" -> "p"
    [] c = "L" -> "l"
    [] OTHER -> c

Lower(s) == [i \in 1..Len(s) |-> LowerChar(s[i])]

IsWhitespace(c) == c \in {" ", "\n"}

\* Python `k in s` on strings: k occurs in s as a contiguous substring.
RECURSIVE OccursFrom(_, _, _)
OccursFrom(k, s, i) ==
  IF i + Len(k) - 1 > Len(s) THEN FALSE
  ELSE IF SubSeq(s, i, i + Len(k) - 1) = k THEN TRUE
  ELSE OccursFrom(k, s, i + 1)

Contains(s, k) == OccursFrom(k, s, 1)

\* Python str.split() without arguments: the set of maximal runs of
\* non-whitespace characters (the code only uses set(...) of the result).
RECURSIVE SplitFrom(_, _, _)
SplitFrom(s, i, cur) ==
  IF i > Len(s) THEN (IF cur = <<>> THEN {} ELSE {cur})
  ELSE IF IsWhitespace(s[i])
       THEN (IF cur = <<>> THEN {} ELSE {cur}) \cup SplitFrom(s, i + 1, <<>>)
       ELSE SplitFrom(s, i + 1, Append(cur, s[i]))

Terms(s) == SplitFrom(Lower(s), 1, <<>>)

\* Python `not s.strip()`: s holds nothing but whitespace.
IsBlank(s) == \A i \in 1..Len(s) : IsWhitespace(s[i])

\* "\n\n".join(chunks)
RECURSIVE Join(_)
Join(chunks) ==
  IF chunks = <<>> THEN <<>>
  ELSE IF Len(chunks) = 1 THEN chunks[1]
  ELSE chunks[1] \o <<"\n", "\n">> \o Join(Tail(chunks))

-----------------------------------------------------------------------------
(* Inputs: the queries a user types and the PDF files on disk.             *)

QRainToday == <<"R", "a", "i", "n", " ", "t", "o", "d", "a", "y">>

QBrainstorm == <<"b", "r", "a", "i", "n", "s", "t", "o", "r", "m", " ", "l", "e", "a", "v", "e">>

QSunnyLeave == <<"s", "u", "n", "n", "y", " ", "l", "e", "a", "v", "e", " ", "p", "o", "l", "i", "c", "y">>

QWeatherParis == <<"W", "e", "a", "t", "h", "e", "r", " ", "P", "a", "r", "i", "s">>

QLeavePolicy == <<"l", "e", "a", "v", "e", " ", "p", "o", "l", "i", "c", "y">>

QLeaveDays == <<"L", "e", "a", "v", "e", " ", "d", "a", "y", "s">>

QPolicy == <<"p", "o", "l", "i", "c", "y">>

QHello == <<"h", "e", "l", "l", "o">>

QEmpty == <<>>

QSplitWord == <<"w", "e", "a", " ", "t", "h", "e", "r">>

Queries ==
  {QRainToday, QBrainstorm, QSunnyLeave, QWeatherParis, QLeavePolicy,
   QLeaveDays, QPolicy, QHello, QEmpty, QSplitWord}

ChunkLeave == <<"l", "e", "a", "v", "e", " ", "p", "o", "l", "i", "c", "y", " ", "d", "a", "y", "s">>

ChunkHello == <<"h", "e", "l", "l", "o", " ", "w", "o", "r", "l", "d">>

ChunkNotes == <<"P", "o", "l", "i", "c", "y", " ", "n", "o", "t", "e", "s">>

ChunkBlank == <<" ">>

\* The files `load_pdf` is called with; "missing.pdf" cannot be read.
PdfPaths == {"handbook.pdf", "notes.pdf", "scan.pdf", "missing.pdf"}

Readable(p) == p # "missing.pdf"

\* The chunks the splitter produces for a readable file.
PdfSplits(p) ==
  CASE p = "handbook.pdf" -> {ChunkLeave, ChunkHello}
    [] p = "notes.pdf" -> {ChunkNotes}
    [] p = "scan.pdf" -> {ChunkBlank}
    [] OTHER -> {}

NoStore == [loaded |-> FALSE, chunks |-> {}]

Stores == {NoStore} \cup {[loaded |-> TRUE, chunks |-> PdfSplits(p)] : p \in PdfPaths}

-----------------------------------------------------------------------------
(* The pipeline record (GraphState) and the external services.             *)

\* A dict is the set of its <<key, value>> items; {} is the empty dict.
Keys(d) == {kv[1] : kv \in d}

Lookup(d, k) == (CHOOSE kv \in d : kv[1] = k)[2]

QueryTypes == {"weather", "pdf", "unknown"}

\* The record `query` starts a run with.
InitialState(user_query) ==
  [query |-> user_query, query_type |-> "unknown", weather_data |-> {},
   pdf_context |-> <<>>, llm_response |-> "", error |-> ""]

weather_keywords ==
  { <<"w", "e", "a", "t", "h", "e", "r">>,
    <<"t", "e", "m", "p", "e", "r", "a", "t", "u", "r", "e">>,
    <<"f", "o", "r", "e", "c", "a", "s", "t">>,
    <<"c", "l", "i", "m", "a", "t", "e">>,
    <<"r", "a", "i", "n">>,
    <<"s", "u", "n", "n", "y">>,
    <<"c", "l", "o", "u", "d", "y">> }

\* What the LLM may do when asked for a city name: answer with a text (a
\* city, only whitespace, nothing) or raise.
CityParis == <<"P", "a", "r", "i", "s">>

CityLondon == <<"L", "o", "n", "d", "o", "n">>

CityReplies ==
  {[raises |-> FALSE, content |-> CityParis],
   [raises |-> FALSE, content |-> <<" ">>],
   [raises |-> FALSE, content |-> <<>>],
   [raises |-> TRUE, content |-> <<>>]}

\* What the LLM may do when asked to generate the answer: answer with a
\* text, possibly the empty one, or raise an exception whose text is `content`.
LLMReplies ==
  {[raises |-> FALSE, content |-> "It is 20 degrees and clear."],
   [raises |-> FALSE, content |-> ""],
   [raises |-> TRUE, content |-> "Rate limit exceeded"],
   [raises |-> TRUE, content |-> ""]}

\* The JSON paths fetch_weather reads, with the key each one is stored under.
WeatherFields ==
  { <<"city", "name">>, <<"temperature", "main.temp">>,
    <<"feels_like", "main.feels_like">>,
    <<"description", "weather.0.description">>,
    <<"humidity", "main.humidity">>, <<"wind_speed", "wind.speed">> }

FullPayload(city) ==
  { <<"name", city>>, <<"main.temp", "20">>, <<"main.feels_like", "19">>,
    <<"weather.0.description", "clear">>, <<"main.humidity", "50">>,
    <<"wind.speed", "3">> }

\* What the weather provider may do for a city: the connection fails, it
\* answers with an error status, with a complete payload, or with a payload
\* that lacks a field (a body that is not JSON at all counts as lacking all).
ProviderResponses(city) ==
  {[exception |-> TRUE, status |-> 0, json |-> {}],
   [exception |-> FALSE, status |-> 404, json |-> {}],
   [exception |-> FALSE, status |-> 200, json |-> FullPayload(city)],
   [exception |-> FALSE, status |-> 200,
    json |-> FullPayload(city) \ {<<"wind.speed", "3">>}],
   [exception |-> FALSE, status |-> 200, json |-> {}],
   [exception |-> FALSE, status |-> 304, json |-> {}]}

\* No call to the provider has been made.
NoResponse == [exception |-> FALSE, status |-> 0, json |-> {}]

\* str.strip()
RECURSIVE Strip(_)
Strip(s) ==
  IF s = <<>> THEN s
  ELSE IF IsWhitespace(s[1]) THEN Strip(Tail(s))
  ELSE IF IsWhitespace(s[Len(s)]) THEN Strip(SubSeq(s, 1, Len(s) - 1))
  ELSE s

K == 3

Min(a, b) == IF a < b THEN a ELSE b

\* What the retriever may do on a store: raise, or return the K nearest
\* chunks (all of them when the store holds fewer) in some order.
Retrievals(vs) ==
  LET n == Min(K, Cardinality(vs.chunks))
  IN  {[raises |-> TRUE, docs |-> <<>>]} \cup
      {[raises |-> FALSE, docs |-> d] :
         d \in {f \in [1..n -> vs.chunks] :
                  \A i, j \in 1..n : f[i] = f[j] => i = j}}

-----------------------------------------------------------------------------
(* The nodes of the graph, as functions of the record and of what the      *)
(* external services answer.  A node yields the record it returns (st),    *)
(* whether an exception escapes it (raised) and the calls it makes.        *)

\* route_query with the store test ahead of the keyword test.
route_query_store_first(st, vs) ==
  LET query == Lower(st.query)
  IN  IF vs.loaded
        THEN [st EXCEPT !.query_type = "pdf"]
      ELSE IF \E k \in weather_keywords : Contains(query, k)
        THEN [st EXCEPT !.query_type = "weather"]
      ELSE [st EXCEPT !.query_type = "unknown"]

\* route_query that does not look at the store.
route_query_no_store_test(st, vs) ==
  LET query == Lower(st.query)
  IN  IF \E k \in weather_keywords : Contains(query, k)
        THEN [st EXCEPT !.query_type = "weather"]
      ELSE [st EXCEPT !.query_type = "pdf"]

\* route_query is the same in both variants.
route_query(st, vs) ==
  LET query == Lower(st.query)
  IN  IF \E k \in weather_keywords : Contains(query, k)
        THEN [st EXCEPT !.query_type = "weather"]
      ELSE IF vs.loaded
        THEN [st EXCEPT !.query_type = "pdf"]
      ELSE [st EXCEPT !.query_type = "unknown"]

decide_path(st) == st.query_type

\* _extract_city is the same in both variants up to the prompt's wording.
_extract_city(reply) ==
  IF reply.raises THEN CityLondon
  ELSE IF Strip(reply.content) = <<>> THEN CityLondon
  ELSE Strip(reply.content)

\* fetch_weather whose handler reclassifies the query.
fetch_weather_reclassify(st, reply, response) ==
  LET failed ==
        \/ response.exception
        \/ response.status >= 400
        \/ \E f \in WeatherFields : f[2] \notin Keys(response.json)
      data == {<<f[1], Lookup(response.json, f[2])>> : f \in WeatherFields}
  IN  [st |-> IF failed
                THEN [st EXCEPT !.error = "Weather data could not be retrieved.",
                                !.weather_data = {},
                                !.query_type = "unknown"]
                ELSE [st EXCEPT !.weather_data = data],
       raised |-> FALSE, llm |-> 1, http |-> 1]

\* fetch_weather whose handler records no error.
fetch_weather_no_error(st, reply, response) ==
  LET failed ==
        \/ response.exception
        \/ response.status >= 400
        \/ \E f \in WeatherFields : f[2] \notin Keys(response.json)
      data == {<<f[1], Lookup(response.json, f[2])>> : f \in WeatherFields}
  IN  [st |-> IF failed
                THEN [st EXCEPT !.weather_data = {}]
                ELSE [st EXCEPT !.weather_data = data],
       raised |-> FALSE, llm |-> 1, http |-> 1]

\* fetch_weather is the same in both variants.  `reply` is the LLM's answer
\* to the city prompt, `response` the provider's answer.
fetch_weather(st, reply, response) ==
  LET failed ==
        \/ response.exception
        \/ response.status >= 400
        \/ \E f \in WeatherFields : f[2] \notin Keys(response.json)
      data == {<<f[1], Lookup(response.json, f[2])>> : f \in WeatherFields}
  IN  [st |-> IF failed
                THEN [st EXCEPT !.error = "Weather data could not be retrieved.",
                                !.weather_data = {}]
                ELSE [st EXCEPT !.weather_data = data],
       raised |-> FALSE, llm |-> 1, http |-> 1]

\* fetch_pdf_context whose store access is outside the try block.
fetch_pdf_context_unguarded(st, vs, retrieval) ==
  IF ~vs.loaded
    THEN [st |-> st, raised |-> TRUE, index |-> 0]
  ELSE IF retrieval.raises
    THEN [st |-> [st EXCEPT !.pdf_context = <<>>], raised |-> FALSE, index |-> 1]
  ELSE [st |-> [st EXCEPT !.pdf_context = Join(retrieval.docs)],
        raised |-> FALSE, index |-> 1]

\* fetch_pdf_context of main.py: without a store the attribute access on
\* None raises inside the try block and the handler empties the context.
fetch_pdf_context(st, vs, retrieval) ==
  IF ~vs.loaded \/ retrieval.raises
    THEN [st |-> [st EXCEPT !.pdf_context = <<>>], raised |-> FALSE,
          index |-> IF vs.loaded THEN 1 ELSE 0]
  ELSE [st |-> [st EXCEPT !.pdf_context = Join(retrieval.docs)],
        raised |-> FALSE, index |-> 1]

\* fetch_pdf_context of test_main.py: early return without a store.
test_main_fetch_pdf_context(st, vs, retrieval) ==
  IF ~vs.loaded
    THEN [st |-> [st EXCEPT !.pdf_context = <<>>], raised |-> FALSE, index |-> 0]
  ELSE IF retrieval.raises
    THEN [st |-> [st EXCEPT !.pdf_context = <<>>], raised |-> FALSE, index |-> 1]
  ELSE [st |-> [st EXCEPT !.pdf_context = Join(retrieval.docs)],
        raised |-> FALSE, index |-> 1]

\* _is_context_relevant that is content with one shared term.
_is_context_relevant_one_term(query, context) ==
  IF IsBlank(context) THEN FALSE
  ELSE Cardinality(Terms(query) \cap Terms(context)) >= 1

_is_context_relevant(query, context) ==
  IF IsBlank(context) THEN FALSE
  ELSE Cardinality(Terms(query) \cap Terms(context)) >= 2

RefusalMessage ==
  "Please ask a question strictly related to the uploaded PDF documents. I cannot answer general knowledge questions."

UnknownMessage ==
  "Please ask a weather-related question or a question based on the available PDF documents."

ErrorMessage == "An error occurred while generating the response."

TestMainUnknownMessage ==
  "I couldn't determine whether this is a weather or document query."

\* The variables the weather prompt template needs; invoking the template
\* with one of them missing raises KeyError before the LLM is reached.
WeatherPromptVariables ==
  {"city", "temperature", "feels_like", "description", "humidity",
   "wind_speed", "query"}

\* generate_response without the exception handler.
generate_response_unhandled(st, reply) ==
  IF st.query_type = "weather" THEN
    IF ~(WeatherPromptVariables \subseteq (Keys(st.weather_data) \cup {"query"}))
      THEN [st |-> st, raised |-> TRUE, llm |-> 0, llm_error |-> FALSE,
            llm_exception |-> ""]
    ELSE IF reply.raises
      THEN [st |-> st, raised |-> TRUE, llm |-> 1, llm_error |-> TRUE,
            llm_exception |-> reply.content]
    ELSE [st |-> [st EXCEPT !.llm_response = reply.content],
          raised |-> FALSE, llm |-> 1, llm_error |-> FALSE,
          llm_exception |-> ""]
  ELSE IF st.query_type = "pdf" THEN
    IF ~_is_context_relevant(st.query, st.pdf_context)
      THEN [st |-> [st EXCEPT !.llm_response = RefusalMessage],
            raised |-> FALSE, llm |-> 0, llm_error |-> FALSE,
            llm_exception |-> ""]
    ELSE IF reply.raises
      THEN [st |-> st, raised |-> TRUE, llm |-> 1, llm_error |-> TRUE,
            llm_exception |-> reply.content]
    ELSE [st |-> [st EXCEPT !.llm_response = reply.content],
          raised |-> FALSE, llm |-> 1, llm_error |-> FALSE,
          llm_exception |-> ""]
  ELSE [st |-> [st EXCEPT !.llm_response = UnknownMessage],
        raised |-> FALSE, llm |-> 0, llm_error |-> FALSE,
        llm_exception |-> ""]

\* generate_response that asks the LLM about unclassified queries too.
generate_response_unknown_llm(st, reply) ==
  IF st.query_type = "weather"
     /\ ~(WeatherPromptVariables \subseteq (Keys(st.weather_data) \cup {"query"}))
    THEN [st |-> [st EXCEPT !.llm_response = ErrorMessage],
          raised |-> FALSE, llm |-> 0, llm_error |-> FALSE,
          llm_exception |-> ""]
  ELSE IF st.query_type = "pdf"
          /\ ~_is_context_relevant(st.query, st.pdf_context)
    THEN [st |-> [st EXCEPT !.llm_response = RefusalMessage],
          raised |-> FALSE, llm |-> 0, llm_error |-> FALSE,
          llm_exception |-> ""]
  ELSE IF reply.raises
    THEN [st |-> [st EXCEPT !.llm_response = ErrorMessage],
          raised |-> FALSE, llm |-> 1, llm_error |-> TRUE,
          llm_exception |-> reply.content]
  ELSE [st |-> [st EXCEPT !.llm_response = reply.content],
        raised |-> FALSE, llm |-> 1, llm_error |-> FALSE,
        llm_exception |-> ""]

\* generate_response of main.py.  `reply` is what the LLM does if invoked;
\* llm is the number of LLM invocations, llm_error whether the LLM raised.
generate_response(st, reply) ==
  IF st.query_type = "weather" THEN
    IF ~(WeatherPromptVariables \subseteq (Keys(st.weather_data) \cup {"query"}))
      THEN [st |-> [st EXCEPT !.llm_response = ErrorMessage],
            raised |-> FALSE, llm |-> 0, llm_error |-> FALSE,
            llm_exception |-> ""]
    ELSE IF reply.raises
      THEN [st |-> [st EXCEPT !.llm_response = ErrorMessage],
            raised |-> FALSE, llm |-> 1, llm_error |-> TRUE,
            llm_exception |-> reply.content]
    ELSE [st |-> [st EXCEPT !.llm_response = reply.content],
          raised |-> FALSE, llm |-> 1, llm_error |-> FALSE,
            llm_exception |-> ""]
  ELSE IF st.query_type = "pdf" THEN
    IF ~_is_context_relevant(st.query, st.pdf_context)
      THEN [st |-> [st EXCEPT !.llm_response = RefusalMessage],
            raised |-> FALSE, llm |-> 0, llm_error |-> FALSE,
            llm_exception |-> ""]
    ELSE IF reply.raises
      THEN [st |-> [st EXCEPT !.llm_response = ErrorMessage],
            raised |-> FALSE, llm |-> 1, llm_error |-> TRUE,
            llm_exception |-> reply.content]
    ELSE [st |-> [st EXCEPT !.llm_response = reply.content],
          raised |-> FALSE, llm |-> 1, llm_error |-> FALSE,
            llm_exception |-> ""]
  ELSE [st |-> [st EXCEPT !.llm_response = UnknownMessage],
        raised |-> FALSE, llm |-> 0, llm_error |-> FALSE,
            llm_exception |-> ""]

\* generate_response of test_main.py without the test on weather_data: the
\* weather prompt is built from whatever the record holds.
test_main_generate_response_no_data_check(st, reply) ==
  IF st.query_type = "weather"
     /\ ~(WeatherPromptVariables \subseteq (Keys(st.weather_data) \cup {"query"}))
    THEN [st |-> [st EXCEPT !.llm_response = "missing variables"],
          raised |-> FALSE, llm |-> 0, llm_error |-> FALSE,
          llm_exception |-> ""]
  ELSE IF st.query_type \in {"weather", "pdf"}
    THEN IF reply.raises
           THEN [st |-> [st EXCEPT !.llm_response = reply.content],
                 raised |-> FALSE, llm |-> 1, llm_error |-> TRUE,
                 llm_exception |-> reply.content]
         ELSE [st |-> [st EXCEPT !.llm_response = reply.content],
               raised |-> FALSE, llm |-> 1, llm_error |-> FALSE,
               llm_exception |-> ""]
  ELSE [st |-> [st EXCEPT !.llm_response = TestMainUnknownMessage],
        raised |-> FALSE, llm |-> 0, llm_error |-> FALSE,
        llm_exception |-> ""]

\* generate_response of test_main.py: no relevance guard, the weather branch
\* needs non-empty weather data, the handler stores the exception's text.
test_main_generate_response(st, reply) ==
  IF \/ st.query_type = "weather" /\ st.weather_data # {}
     \/ st.query_type = "pdf"
    THEN IF reply.raises
           THEN [st |-> [st EXCEPT !.llm_response = reply.content],
                 raised |-> FALSE, llm |-> 1, llm_error |-> TRUE,
            llm_exception |-> reply.content]
         ELSE [st |-> [st EXCEPT !.llm_response = reply.content],
               raised |-> FALSE, llm |-> 1, llm_error |-> FALSE,
            llm_exception |-> ""]
  ELSE [st |-> [st EXCEPT !.llm_response = TestMainUnknownMessage],
        raised |-> FALSE, llm |-> 0, llm_error |-> FALSE,
            llm_exception |-> ""]

\* load_pdf of main.py.  `failure` is the step the environment makes fail
\* ("none": every step works); an unreadable file fails in the loader.
LoadFailures == {"none", "loader", "splitter", "embedding", "index"}

\* load_pdf whose loader call is outside the try block.
load_pdf_unhandled(vs, pdf_path, failure) ==
  IF Readable(pdf_path) /\ failure = "none"
    THEN [vector_store |-> [loaded |-> TRUE, chunks |-> PdfSplits(pdf_path)],
          ret |-> TRUE, raised |-> FALSE]
  ELSE IF ~Readable(pdf_path) \/ failure = "loader"
    THEN [vector_store |-> vs, ret |-> FALSE, raised |-> TRUE]
  ELSE [vector_store |-> vs, ret |-> FALSE, raised |-> FALSE]

load_pdf(vs, pdf_path, failure) ==
  IF Readable(pdf_path) /\ failure = "none"
    THEN [vector_store |-> [loaded |-> TRUE, chunks |-> PdfSplits(pdf_path)],
          ret |-> TRUE, raised |-> FALSE]
  ELSE [vector_store |-> vs, ret |-> FALSE, raised |-> FALSE]

\* load_pdf of test_main.py: the handler also drops the store.
test_main_load_pdf(vs, pdf_path, failure) ==
  IF Readable(pdf_path) /\ failure = "none"
    THEN [vector_store |-> [loaded |-> TRUE, chunks |-> PdfSplits(pdf_path)],
          ret |-> TRUE, raised |-> FALSE]
  ELSE [vector_store |-> NoStore, ret |-> FALSE, raised |-> FALSE]

\* The compiled graph: the node that follows `node` when it returned st.
END == "end"

\* The graph with the weather fetch wired straight to the end.
_build_graph_skip_generate(node, st) ==
  CASE node = "router" ->
         (CASE decide_path(st) = "weather" -> "fetch_weather"
            [] decide_path(st) = "pdf" -> "fetch_pdf_context"
            [] decide_path(st) = "unknown" -> "generate_response")
    [] node = "fetch_weather" -> END
    [] node = "fetch_pdf_context" -> "generate_response"
    [] node = "generate_response" -> END

_build_graph(node, st) ==
  CASE node = "router" ->
         (CASE decide_path(st) = "weather" -> "fetch_weather"
            [] decide_path(st) = "pdf" -> "fetch_pdf_context"
            [] decide_path(st) = "unknown" -> "generate_response")
    [] node = "fetch_weather" -> "generate_response"
    [] node = "fetch_pdf_context" -> "generate_response"
    [] node = "generate_response" -> END

-----------------------------------------------------------------------------
(* The agent as a state machine.  pc is the node the graph runs next       *)
(* ("idle" before the first call and after a call that is not a query,     *)
(* END when a run has returned, "aborted" when an exception left it);      *)
(* executed lists the nodes run so far in the current run and the call     *)
(* counters count the calls to the external services in the current run.   *)

Variants == {"main", "test_main"}

\* Records a caller may hand to a node it calls directly.
DirectRecords ==
  {InitialState(QHello),
   [query |-> QLeavePolicy, query_type |-> "pdf",
    weather_data |-> {<<"city", CityParis>>}, pdf_context |-> ChunkHello,
    llm_response |-> "stale answer", error |-> "stale error"],
   [query |-> QRainToday, query_type |-> "weather", weather_data |-> {},
    pdf_context |-> <<>>, llm_response |-> "",
    error |-> "Weather data could not be retrieved."]}

\* The PDF files os.listdir may find in sample_docs/, in the order it
\* returns them (a file is listed once; the folder may be empty).
DirectoryFiles == {"handbook.pdf", "notes.pdf", "scan.pdf"}

Listings ==
  UNION {{f \in [1..n -> DirectoryFiles] :
            \A i, j \in 1..n : f[i] = f[j] => i = j} :
         n \in 0..Cardinality(DirectoryFiles)}

\* The `for pdf_path in pdf_files: agent.load_pdf(pdf_path)` loop of
\* initialize_agent, run on the new agent's store vs: the store after the
\* loop and the files whose load_pdf returned True.
RECURSIVE LoadAll(_, _, _)
LoadAll(vs, pdf_files, failures) ==
  IF pdf_files = <<>> THEN [vector_store |-> vs, ok |-> {}]
  ELSE LET r == load_pdf(vs, Head(pdf_files), Head(failures))
           rest == LoadAll(r.vector_store, Tail(pdf_files), Tail(failures))
       IN  [vector_store |-> rest.vector_store,
            ok |-> (IF r.ret THEN {Head(pdf_files)} ELSE {}) \cup rest.ok]

\* Nothing is shown: initialize_agent has not just run.
NoReport == [pdf_files |-> <<>>, ok |-> {}, loaded_count |-> 0]

Init ==
  /\ variant \in Variants
  /\ vector_store = NoStore
  /\ pc = "idle"
  /\ state = InitialState(<<>>)
  /\ executed = <<>>
  /\ llm_calls = 0
  /\ weather_calls = 0
  /\ index_calls = 0
  /\ raised = FALSE
  /\ op = "none"
  /\ arg = InitialState(<<>>)
  /\ load_result = FALSE
  /\ load_arg = [pdf_path |-> "", failure |-> "none"]
  /\ weather_response = NoResponse
  /\ llm_error = FALSE
  /\ llm_exception = ""
  /\ startup_report = NoReport

Resting == pc \in {"idle", END, "aborted"}

\* query that reuses the record of the previous call.
Query_keeps_record(user_query) ==
  /\ Resting
  /\ state' = [state EXCEPT !.query = user_query]
  /\ pc' = "router"
  /\ executed' = <<>>
  /\ llm_calls' = 0
  /\ weather_calls' = 0
  /\ index_calls' = 0
  /\ raised' = FALSE
  /\ op' = "query"
  /\ weather_response' = NoResponse
  /\ llm_error' = FALSE
  /\ llm_exception' = ""
  /\ startup_report' = NoReport
  /\ UNCHANGED <<variant, vector_store, arg, load_result, load_arg>>

\* query(user_query): build the fresh record and enter the graph.
Query(user_query) ==
  /\ Resting
  /\ state' = InitialState(user_query)
  /\ pc' = "router"
  /\ executed' = <<>>
  /\ llm_calls' = 0
  /\ weather_calls' = 0
  /\ index_calls' = 0
  /\ raised' = FALSE
  /\ op' = "query"
  /\ weather_response' = NoResponse
  /\ llm_error' = FALSE
  /\ llm_exception' = ""
  /\ startup_report' = NoReport
  /\ UNCHANGED <<variant, vector_store, arg, load_result, load_arg>>

Router ==
  /\ pc = "router"
  /\ state' = route_query(state, vector_store)
  /\ pc' = _build_graph("router", state')
  /\ executed' = Append(executed, "router")
  /\ UNCHANGED <<startup_report, variant, vector_store, llm_calls, weather_calls, index_calls,
                 raised, op, arg, load_result, load_arg, weather_response,
                 llm_error, llm_exception>>

FetchWeather ==
  /\ pc = "fetch_weather"
  /\ \E reply \in CityReplies :
       \E response \in ProviderResponses(_extract_city(reply)) :
         LET r == fetch_weather(state, reply, response)
         IN  /\ state' = r.st
             /\ raised' = r.raised
             /\ pc' = IF r.raised THEN "aborted"
                      ELSE _build_graph("fetch_weather", r.st)
             /\ llm_calls' = llm_calls + r.llm
             /\ weather_calls' = weather_calls + r.http
             /\ weather_response' = response
  /\ executed' = Append(executed, "fetch_weather")
  /\ UNCHANGED <<startup_report, variant, vector_store, index_calls, op, arg, load_result,
                 load_arg, llm_error, llm_exception>>

FetchPdfContext ==
  /\ pc = "fetch_pdf_context"
  /\ \E retrieval \in Retrievals(vector_store) :
       LET r == IF variant = "main"
                  THEN fetch_pdf_context(state, vector_store, retrieval)
                  ELSE test_main_fetch_pdf_context(state, vector_store, retrieval)
       IN  /\ state' = r.st
           /\ raised' = r.raised
           /\ pc' = IF r.raised THEN "aborted"
                    ELSE _build_graph("fetch_pdf_context", r.st)
           /\ index_calls' = index_calls + r.index
  /\ executed' = Append(executed, "fetch_pdf_context")
  /\ UNCHANGED <<startup_report, variant, vector_store, llm_calls, weather_calls, op, arg,
                 load_result, load_arg, weather_response, llm_error,
                 llm_exception>>

GenerateResponse ==
  /\ pc = "generate_response"
  /\ \E reply \in LLMReplies :
       LET r == IF variant = "main"
                  THEN generate_response(state, reply)
                  ELSE test_main_generate_response(state, reply)
       IN  /\ state' = r.st
           /\ raised' = r.raised
           /\ pc' = IF r.raised THEN "aborted"
                    ELSE _build_graph("generate_response", r.st)
           /\ llm_calls' = llm_calls + r.llm
           /\ llm_error' = r.llm_error
           /\ llm_exception' = r.llm_exception
  /\ executed' = Append(executed, "generate_response")
  /\ UNCHANGED <<startup_report, variant, vector_store, weather_calls, index_calls, op, arg,
                 load_result, load_arg, weather_response>>

\* load_pdf(pdf_path), called between runs.
LoadPdf(pdf_path) ==
  /\ Resting
  /\ \E failure \in (IF Readable(pdf_path) THEN LoadFailures ELSE {"loader"}) :
       LET r == IF variant = "main"
                  THEN load_pdf(vector_store, pdf_path, failure)
                  ELSE test_main_load_pdf(vector_store, pdf_path, failure)
       IN  /\ vector_store' = r.vector_store
           /\ load_result' = r.ret
           /\ raised' = r.raised
           /\ load_arg' = [pdf_path |-> pdf_path, failure |-> failure]
  /\ pc' = "idle"
  /\ op' = "load_pdf"
  /\ startup_report' = NoReport
  /\ UNCHANGED <<variant, state, executed, llm_calls, weather_calls,
                 index_calls, arg, weather_response, llm_error,
                 llm_exception>>

\* fetch_pdf_context(record) called directly, outside a run of the graph.
CallFetchPdfContext(record) ==
  /\ Resting
  /\ \E retrieval \in Retrievals(vector_store) :
       LET r == IF variant = "main"
                  THEN fetch_pdf_context(record, vector_store, retrieval)
                  ELSE test_main_fetch_pdf_context(record, vector_store, retrieval)
       IN  /\ state' = r.st
           /\ raised' = r.raised
           /\ index_calls' = r.index
  /\ arg' = record
  /\ pc' = "idle"
  /\ op' = "fetch_pdf_context"
  /\ executed' = <<>>
  /\ llm_calls' = 0
  /\ weather_calls' = 0
  /\ weather_response' = NoResponse
  /\ llm_error' = FALSE
  /\ llm_exception' = ""
  /\ startup_report' = NoReport
  /\ UNCHANGED <<variant, vector_store, load_result, load_arg>>

\* initialize_agent of app.py (both API keys present, sample_docs/ exists):
\* build a new agent of main.py, load every listed PDF into it and report
\* "Loaded N PDF(s)" with N the number of files listed.
InitializeAgent(pdf_files) ==
  /\ variant = "main"
  /\ op = "none"
  /\ \E failures \in [1..Len(pdf_files) -> LoadFailures] :
       LET r == LoadAll(NoStore, pdf_files, failures)
       IN  /\ vector_store' = r.vector_store
           /\ startup_report' = [pdf_files |-> pdf_files, ok |-> r.ok,
                                 loaded_count |-> Len(pdf_files)]
  /\ pc' = "idle"
  /\ op' = "initialize_agent"
  /\ UNCHANGED <<variant, state, executed, llm_calls, weather_calls,
                 index_calls, raised, arg, load_result, load_arg,
                 weather_response, llm_error, llm_exception>>

Next ==
  \/ \E user_query \in Queries : Query(user_query)
  \/ Router
  \/ FetchWeather
  \/ FetchPdfContext
  \/ GenerateResponse
  \/ \E pdf_path \in PdfPaths : LoadPdf(pdf_path)
  \/ \E record \in DirectRecords : CallFetchPdfContext(record)
  \/ \E pdf_files \in Listings : InitializeAgent(pdf_files)

Spec == Init /\ [][Next]_vars

TypeOK ==
  /\ variant \in Variants
  /\ vector_store \in Stores
  /\ pc \in {"idle", "router", "fetch_weather", "fetch_pdf_context",
             "generate_response", END, "aborted"}
  /\ state.query_type \in QueryTypes
  /\ raised \in BOOLEAN

-----------------------------------------------------------------------------
(* Properties.                                                             *)

\* The keyword list as the specification gives it.
SpecKeywords ==
  { <<"w", "e", "a", "t", "h", "e", "r">>,
    <<"t", "e", "m", "p", "e", "r", "a", "t", "u", "r", "e">>,
    <<"f", "o", "r", "e", "c", "a", "s", "t">>,
    <<"c", "l", "i", "m", "a", "t", "e">>,
    <<"r", "a", "i", "n">>,
    <<"s", "u", "n", "n", "y">>,
    <<"c", "l", "o", "u", "d", "y">> }

\* The lower-cased text q holds some keyword at some position.
HasWeatherKeyword(q) ==
  \E k \in SpecKeywords : \E i \in 1..Len(q) :
    /\ i + Len(k) - 1 <= Len(q)
    /\ \A j \in 1..Len(k) : LowerChar(q[i + j - 1]) = k[j]

Ran(node) == \E i \in 1..Len(executed) : executed[i] = node

\* The current state belongs to a run of query() whose router has run.
RouterRan == op = "query" /\ Ran("router")

\* The current state is the end of a run of query().
RunEnded == op = "query" /\ pc = END

\* C1: a query whose lower-cased text contains a weather keyword is
\* classified weather, whether or not a document index is loaded.
C1_KeywordRoutesToWeather ==
  RouterRan /\ HasWeatherKeyword(state.query) => state.query_type = "weather"

C1_Witness ==
  /\ RouterRan
  /\ state.query = QSunnyLeave
  /\ vector_store.loaded
  /\ ChunkLeave \in vector_store.chunks
  /\ state.query_type = "weather"

\* C2: a query without a weather keyword is classified document ("pdf")
\* exactly when an index exists at that time, and unknown otherwise.
C2_NoKeywordRoutesByIndex ==
  RouterRan /\ ~HasWeatherKeyword(state.query) =>
    /\ state.query_type = "pdf" <=> vector_store.loaded
    /\ state.query_type = "unknown" <=> ~vector_store.loaded

C2_Witness ==
  /\ RouterRan
  /\ state.query = QSplitWord
  /\ vector_store.loaded
  /\ load_arg.failure # "none"
  /\ state.query_type = "pdf"

\* C3: at the end of every run of query() the record's llm_response is a
\* non-empty text.
C3_ResponsePopulated == RunEnded => state.llm_response # ""

\* C4: when the LLM raises during response generation, query() does not
\* raise, the run reaches the end, and llm_response is the generic error
\* message (main.py) or the exception's text (test_main.py).
C4_LLMExceptionCaught ==
  op = "query" /\ llm_error =>
    /\ ~raised
    /\ pc = END
    /\ variant = "main" => state.llm_response = ErrorMessage
    /\ variant = "test_main" => state.llm_response = llm_exception

C4_Witness ==
  /\ RunEnded
  /\ llm_error
  /\ variant = "main"
  /\ state.query_type = "pdf"
  /\ state.llm_response = ErrorMessage

\* C5: fetch_pdf_context called while no index is loaded does not raise and
\* returns the record it was given with pdf_context set to the empty text.
C5_FetchWithoutIndex ==
  op = "fetch_pdf_context" /\ ~vector_store.loaded =>
    /\ ~raised
    /\ state = [arg EXCEPT !.pdf_context = <<>>]

C5_Witness ==
  /\ op = "fetch_pdf_context"
  /\ ~vector_store.loaded
  /\ variant = "main"
  /\ arg.pdf_context # <<>>
  /\ state.pdf_context = <<>>
  /\ state.error = "stale error"

\* C6: load_pdf never raises; it returns False when a step fails and True
\* only when the new index was built and installed as vector_store.
C6_LoadPdfResult ==
  op = "load_pdf" =>
    /\ ~raised
    /\ (~Readable(load_arg.pdf_path) \/ load_arg.failure # "none")
         => ~load_result
    /\ load_result =>
         vector_store = [loaded |-> TRUE, chunks |-> PdfSplits(load_arg.pdf_path)]

C6_Witness ==
  /\ op = "load_pdf"
  /\ load_arg.pdf_path = "missing.pdf"
  /\ ~load_result
  /\ ~raised

\* C7: a run executes router, then the one fetch node of its query_type (none
\* for unknown), then generate_response, then ends; no node runs twice.
ExpectedPath(query_type) ==
  CASE query_type = "weather" ->
         <<"router", "fetch_weather", "generate_response">>
    [] query_type = "pdf" ->
         <<"router", "fetch_pdf_context", "generate_response">>
    [] query_type = "unknown" -> <<"router", "generate_response">>

C7_LinearPipeline ==
  op = "query" =>
    IF executed = <<>> THEN pc = "router"
    ELSE LET path == ExpectedPath(state.query_type)
             n == Len(executed)
         IN  /\ n <= Len(path)
             /\ executed = SubSeq(path, 1, n)
             /\ pc = IF n = Len(path) THEN END ELSE path[n + 1]

C7_Witness ==
  /\ RunEnded
  /\ executed = <<"router", "fetch_weather", "generate_response">>

\* C8: within a run only the router assigns query_type: the nodes after it
\* leave query_type and query unchanged, and at the end of the run the fetch
\* node that ran is the one of the record's query_type.
LaterNodeKeepsQueryType ==
  pc \in {"fetch_weather", "fetch_pdf_context", "generate_response"} =>
    (state'.query_type = state.query_type /\ state'.query = state.query)

C8_QueryTypeSetByRouterOnly ==
  /\ [][LaterNodeKeepsQueryType]_vars
  /\ [](RunEnded =>
          /\ Ran("fetch_weather") <=> state.query_type = "weather"
          /\ Ran("fetch_pdf_context") <=> state.query_type = "pdf")

C8_Witness ==
  /\ RunEnded
  /\ Ran("fetch_weather")
  /\ state.query_type = "weather"
  /\ state.error # ""

\* C9: a run on a query classified unknown returns the fixed instructional
\* message, calls neither the LLM, the weather provider nor the index, and
\* leaves weather_data, pdf_context and error at their initial values.
C9_UnknownCallsNothing ==
  RunEnded /\ state.query_type = "unknown" =>
    /\ state.llm_response =
         (IF variant = "main" THEN UnknownMessage ELSE TestMainUnknownMessage)
    /\ llm_calls = 0
    /\ weather_calls = 0
    /\ index_calls = 0
    /\ state.weather_data = {}
    /\ state.pdf_context = <<>>
    /\ state.error = ""

C9_Witness ==
  /\ RunEnded
  /\ state.query_type = "unknown"
  /\ state.query = QHello
  /\ variant = "main"
  /\ state.llm_response = UnknownMessage

\* The provider's answer is a failure: an exception, a status outside 2xx or
\* a payload lacking one of the six fields.
ProviderFailed(response) ==
  \/ response.exception
  \/ response.status \notin 200..299
  \/ ~({"name", "main.temp", "main.feels_like", "weather.0.description",
        "main.humidity", "wind.speed"} \subseteq Keys(response.json))

IndexLifecycleStep ==
  /\ vector_store.loaded => vector_store'.loaded
  /\ ~vector_store.loaded /\ vector_store'.loaded
       => \/ op' = "load_pdf" /\ load_result'
          \/ op' = "initialize_agent" /\ startup_report'.ok # {}
  /\ op' = "load_pdf" /\ ~load_result' => vector_store' = vector_store

C11_IndexNeverCleared == [][IndexLifecycleStep]_vars

\* C12: after initialize_agent has called load_pdf for each listed PDF, the
\* index holds the chunks of every PDF whose load succeeded.
C12_AllPdfsIndexed ==
  op = "initialize_agent" =>
    vector_store.chunks = UNION {PdfSplits(p) : p \in startup_report.ok}

\* The whitespace-separated lower-cased tokens of a text: its maximal runs of
\* characters that are not whitespace.
SpecTokens(text) ==
  LET low == Lower(text)
      n == Len(low)
  IN  {SubSeq(low, i, j) : <<i, j>> \in
         {w \in (1..n) \X (1..n) :
            /\ w[1] <= w[2]
            /\ \A m \in w[1]..w[2] : ~IsWhitespace(low[m])
            /\ w[1] = 1 \/ IsWhitespace(low[w[1] - 1])
            /\ w[2] = n \/ IsWhitespace(low[w[2] + 1])}}

SpecRelevant(query, context) ==
  /\ \E i \in 1..Len(context) : ~IsWhitespace(context[i])
  /\ Cardinality(SpecTokens(query) \cap SpecTokens(context)) >= 2

\* C13: in main.py a run on a document query invokes the LLM exactly when the
\* retrieved context is not blank and shares at least two tokens with the
\* query; otherwise llm_response is the refusal message and no LLM call is
\* made.
C13_RelevanceGuard ==
  variant = "main" /\ RunEnded /\ state.query_type = "pdf" =>
    /\ llm_calls = 1 <=> SpecRelevant(state.query, state.pdf_context)
    /\ ~SpecRelevant(state.query, state.pdf_context)
         => llm_calls = 0 /\ state.llm_response = RefusalMessage

C13_Witness ==
  /\ variant = "main"
  /\ RunEnded
  /\ state.query_type = "pdf"
  /\ state.query = QLeaveDays
  /\ state.pdf_context # <<>>
  /\ llm_calls = 1
  /\ ~llm_error

\* C14: in main.py a run on a weather query whose fetch failed still invokes
\* the LLM in generate_response (a second LLM call after the one for the
\* city) and llm_response is the LLM's output.
C14_MainGeneratesWithBlanks ==
  /\ variant = "main"
  /\ RunEnded
  /\ Ran("fetch_weather")
  /\ ProviderFailed(weather_response)
  => /\ llm_calls = 2
     /\ ~llm_error => state.llm_response # ErrorMessage

\* C15: in test_main.py a run on a weather query whose fetch failed makes no
\* LLM call in generate_response (the city prompt stays the only one) and
\* returns the fixed message of unknown queries, with query_type still
\* weather and error set.
C15_TestMainFallsThrough ==
  /\ variant = "test_main"
  /\ RunEnded
  /\ Ran("fetch_weather")
  /\ ProviderFailed(weather_response)
  => /\ llm_calls = 1
     /\ ~llm_error
     /\ state.llm_response = TestMainUnknownMessage
     /\ state.query_type = "weather"
     /\ state.weather_data = {}
     /\ state.error # ""

C15_Witness ==
  /\ variant = "test_main"
  /\ RunEnded
  /\ Ran("fetch_weather")
  /\ weather_response.status = 404
  /\ state.llm_response = TestMainUnknownMessage
  /\ state.query_type = "weather"

\* The classification the specification gives a text under an index state.
Classification(text, loaded) ==
  IF HasWeatherKeyword(text) THEN "weather"
  ELSE IF loaded THEN "pdf"
  ELSE "unknown"

QueryStartsFresh ==
  pc # "router" /\ pc' = "router" =>
    /\ state'.query \in Queries
    /\ state'.query_type = "unknown"
    /\ state'.weather_data = {}
    /\ state'.pdf_context = <<>>
    /\ state'.llm_response = ""
    /\ state'.error = ""

\* initialize_agent changes the index through the load_pdf calls it makes.
IndexChangedOnlyByLoad ==
  vector_store' # vector_store => op' \in {"load_pdf", "initialize_agent"}

\* C16: every query() starts from a fresh record and leaves the index alone;
\* the index changes only in load_pdf, and the classification and the nodes a
\* run executes are a function of the query text and the index at that time.
C16_QueriesIndependent ==
  /\ [][QueryStartsFresh]_vars
  /\ [][IndexChangedOnlyByLoad]_vars
  /\ [](RouterRan =>
          state.query_type = Classification(state.query, vector_store.loaded))
  /\ [](RunEnded =>
          /\ executed =
               ExpectedPath(Classification(state.query, vector_store.loaded))
          /\ state.query_type = "pdf" \/ state.pdf_context = <<>>
          /\ state.query_type = "weather"
               \/ (state.weather_data = {} /\ state.error = ""))

C16_Witness ==
  /\ op = "query"
  /\ pc = "router"
  /\ state = [query |-> QHello, query_type |-> "unknown", weather_data |-> {},
              pdf_context |-> <<>>, llm_response |-> "", error |-> ""]
  /\ arg.error = "stale error"
  /\ vector_store.loaded

====
